---- MODULE Spec2Model ----
(***************************************************************************)
(* A model of astix: Token, Tokenizer, Parser, Grammar, Node and AstTree.  *)
(*                                                                         *)
(* Strings of the program are sequences of one-character strings, so that  *)
(* slicing, matching and line/column counting are computed, not assumed.   *)
(* Objects with identity (Node) live in `heap`, indexed by their id.       *)
(***************************************************************************)
EXTENDS Integers, Sequences, FiniteSets, TLC

(***************************************************************************)
(* Bounds of the model.                                                    *)
(***************************************************************************)
MaxInputLen == 3
MaxRuleLen == 2
MaxParseCalls == 2
MaxGrammarRules == 3
MaxNodes == 4
MaxAddNodeCalls == 1

(***************************************************************************)
(* Values.                                                                 *)
(***************************************************************************)
\* The characters of the inputs: a digit, a regex metacharacter, a newline.
Chars == {"3", "+", "\n"}

\* JavaScript's undefined, for an optional name; null, for a Node reference.
Undefined == "%undefined%"
Null == 0

\* An optional number (precedence?, line?, column?): absent, or present.
None == <<>>
Some(n) == <<n>>

\* `${x}`: a template literal prints undefined as the word.
Template(x) == IF x = Undefined THEN "undefined" ELSE x

RECURSIVE SeqsUpTo(_, _)
SeqsUpTo(S, n) ==
  IF n = 0 THEN {<<>>}
  ELSE LET shorter == SeqsUpTo(S, n - 1)
       IN shorter \cup {Append(s, x) : s \in {t \in shorter : Len(t) = n - 1}, x \in S}

Slice(s, from) == SubSeq(s, from + 1, Len(s))

RECURSIVE Concat(_)
Concat(ss) == IF ss = <<>> THEN <<>> ELSE Head(ss) \o Concat(Tail(ss))

\* The length of the longest prefix of s made of characters of cls.
RECURSIVE RunLength(_, _)
RunLength(s, cls) ==
  IF s = <<>> \/ Head(s) \notin cls THEN 0 ELSE 1 + RunLength(Tail(s), cls)

(***************************************************************************)
(* Patterns.  A RegExp object is a character class with a quantifier,      *)
(* unanchored: /[cls]/, /[cls]+/, /[cls]*/, without flags or with the      *)
(* sticky flag y, which makes exec start at the object's lastIndex and     *)
(* write it.  A string pattern is its text.                                *)
(***************************************************************************)
RegExp(cls, quant) ==
  [kind |-> "regex", cls |-> cls, quant |-> quant, text |-> <<>>, flags |-> ""]
StickyRegExp(cls, quant) ==
  [kind |-> "regex", cls |-> cls, quant |-> quant, text |-> <<>>, flags |-> "y"]
Literal(text) ==
  [kind |-> "literal", cls |-> {}, quant |-> "", text |-> text, flags |-> ""]

NoMatch == [found |-> FALSE, index |-> 0, text |-> <<>>]
Found(i, t) == [found |-> TRUE, index |-> i, text |-> t]

\* The least i such that s[i] is in cls, or 0.
FirstIn(s, cls) ==
  IF \E i \in 1..Len(s) : s[i] \in cls
  THEN CHOOSE i \in 1..Len(s) : s[i] \in cls /\ \A j \in 1..(i - 1) : s[j] \notin cls
  ELSE 0

\* RegExp.prototype.exec of a RegExp object on s: the leftmost match, greedy.
RegExpExec(re, s) ==
  IF re.quant = "star"
  THEN Found(0, SubSeq(s, 1, RunLength(s, re.cls)))
  ELSE LET At(i) ==
             IF i = 0 THEN NoMatch
             ELSE IF re.quant = "one" THEN Found(i - 1, <<s[i]>>)
             ELSE Found(i - 1, SubSeq(s, i, i - 1 + RunLength(Slice(s, i - 1), re.cls)))
       IN At(FirstIn(s, re.cls))

\* RegExpBuiltinExec of a RegExp object on s, its lastIndex being `at`: the
\* match and the lastIndex it leaves.  Without flags lastIndex is neither read
\* nor written; a sticky RegExp matches at lastIndex only, and sets it to the
\* end of the match, or to 0 when it fails.
RegExpBuiltinExec(re, s, at) ==
  IF re.flags # "y"
  THEN LET Keep(m) ==
             [found |-> m.found, index |-> m.index, text |-> m.text, lastIndex |-> at]
       IN Keep(RegExpExec(re, s))
  ELSE LET Length(run) ==
             IF re.quant = "star" THEN run
             ELSE IF run = 0 THEN -1
             ELSE IF re.quant = "one" THEN 1 ELSE run
           Match(n) ==
             IF n < 0
             THEN [found |-> FALSE, index |-> 0, text |-> <<>>, lastIndex |-> 0]
             ELSE [found |-> TRUE, index |-> at, text |-> SubSeq(s, at + 1, at + n),
                   lastIndex |-> at + n]
       IN IF at > Len(s) THEN Match(-1)
          ELSE Match(Length(RunLength(Slice(s, at), re.cls)))

\* The lastIndex of a RegExp object in `li`, the lastIndex of the sticky
\* RegExp objects; that of an object without flags stays 0.
LastIndexOf(li, re) == IF re \in DOMAIN li THEN li[re] ELSE 0

SetLastIndex(li, re, n) == IF re \in DOMAIN li THEN [li EXCEPT ![re] = n] ELSE li

\* RegExp.prototype.test: whether exec matches, and the lastIndex it leaves.
RegExpTest(re, s, li) ==
  LET Of(m) == [found |-> m.found, lastIndex |-> SetLastIndex(li, re, m.lastIndex)]
  IN Of(RegExpBuiltinExec(re, s, LastIndexOf(li, re)))

(***************************************************************************)
(* new RegExp(`^${text}`): the text of a string pattern is read as regex   *)
(* source, not escaped.  Of the characters of Chars, "+" is the quantifier *)
(* "one or more of the preceding atom"; with nothing to repeat (after "^"  *)
(* or after another "+") the constructor throws a SyntaxError.             *)
(***************************************************************************)
SourceIsValid(text) ==
  \A i \in 1..Len(text) :
    text[i] = "+" => (i > 1 /\ text[i - 1] # "+")

\* The atoms of a valid source: each a character, repeated or not.
RECURSIVE Atoms(_)
Atoms(text) ==
  IF text = <<>> THEN <<>>
  ELSE IF Len(text) >= 2 /\ text[2] = "+"
       THEN <<[char |-> text[1], plus |-> TRUE]>> \o Atoms(Slice(text, 2))
       ELSE <<[char |-> text[1], plus |-> FALSE]>> \o Atoms(Tail(text))

\* The length of the match of the atoms at the start of s (greedy, with
\* backtracking), or -1.
RECURSIVE MatchAtoms(_, _)
MatchAtoms(atoms, s) ==
  IF atoms = <<>> THEN 0
  ELSE LET a == Head(atoms)
           run == RunLength(s, {a.char})
           Rest(k) == MatchAtoms(Tail(atoms), Slice(s, k))
           ks == IF a.plus THEN {k \in 1..run : Rest(k) >= 0}
                 ELSE {k \in {1} : run >= 1 /\ Rest(k) >= 0}
       IN IF ks = {} THEN -1
          ELSE LET k == CHOOSE x \in ks : \A y \in ks : y <= x
               IN k + Rest(k)

\* exec of the anchored RegExp compiled from a valid source.
AnchoredExec(text, s) ==
  LET Of(n) == IF n < 0 THEN NoMatch ELSE Found(0, SubSeq(s, 1, n))
  IN Of(MatchAtoms(Atoms(text), s))

(***************************************************************************)
(* Token: token.ts.                                                        *)
(***************************************************************************)
Token(pattern, name, skip, value) ==
  [pattern |-> pattern, name |-> name, skip |-> skip, value |-> value]

\* The constructor's defaults: skip = false, value = "".
Token3(pattern, name, skip) == Token(pattern, name, skip, <<>>)

isRegex(token) == token.pattern.kind = "regex"

\* The token definitions the grammars are built from.
NUM == Token3(RegExp({"3"}, "plus"), "NUM", FALSE)
PLUS == Token3(Literal(<<"+">>), "PLUS", FALSE)
OP == Token3(RegExp({"+"}, "one"), "OP", FALSE)
THREE == Token3(Literal(<<"3">>), "THREE", FALSE)
ANY == Token3(RegExp({"\n"}, "star"), Undefined, FALSE)
WS == Token3(RegExp({"\n"}, "plus"), "WS", TRUE)
TokenDefs == {NUM, PLUS, OP, THREE, ANY, WS}

\* Two more definitions: the sticky /[3]*/y, and the empty string.
NUMY == Token3(StickyRegExp({"3"}, "star"), "NUMY", FALSE)
EMPTY == Token3(Literal(<<>>), "EMPTY", FALSE)

\* The RegExp objects that carry state, and their lastIndex when created.
StickyPatterns == {NUMY.pattern}
NewLastIndex == [re \in StickyPatterns |-> 0]

(***************************************************************************)
(* Grammar model: grammar.ts.                                              *)
(***************************************************************************)
Associativity == {"LEFT", "RIGHT", "NONASSOC"}

\* new GrammarRule(tokens, associativity = NONASSOC, precedence, name).
GrammarRule(tokens, associativity, precedence, name) ==
  [tokens |-> tokens,
   associativity |-> IF associativity = Undefined THEN "NONASSOC" ELSE associativity,
   precedence |-> precedence,
   name |-> name]

(***************************************************************************)
(* Errors: errors.ts.  A message is the sequence of its parts.             *)
(***************************************************************************)
AstixError(name, message, line, column) ==
  [name |-> name, message |-> message, line |-> line, column |-> column]

TokenizerError(message, line, column) ==
  AstixError("TokenizerError", message, Some(line), Some(column))

\* A slip: line and column in each other's place.
ParserErrorColumnFirst(message, line, column) ==
  AstixError("ParserError", message, Some(column), Some(line))

ParserError(message, line, column) ==
  AstixError("ParserError", message, Some(line), Some(column))

\* The errors of the runtime, which carry no line or column.
SyntaxError == AstixError("SyntaxError", <<"Invalid regular expression">>, None, None)
TypeError == AstixError("TypeError", <<"Cannot read properties of undefined">>, None, None)

NoError == AstixError("", <<>>, None, None)

(***************************************************************************)
(* State.                                                                  *)
(***************************************************************************)
VARIABLES
  grammar,    \* the Grammar: [rules]
  tokenizer,  \* the Tokenizer: [tokens, input, position, line, column]
  result,     \* Tokenizer.tokenize's local result
  lexemes,    \* history: the value of tokenize's local `match` at each push
  parser,     \* the Parser: [tokens, position]
  pc,         \* where the caller is: "start", "tokenize", "constructed", "matchRule",
              \* "threw"
  frame,      \* Parser.matchRule's locals: [rootNode, i]
  heap,       \* the Node objects, by id
  tree,       \* the AstTree: [root, leaves]
  thrown,     \* the error the last call threw, or NoError
  calls,      \* the number of parse() calls made
  returned,   \* what the last query returned: [op, arg, value]
  lastIndex,  \* the lastIndex of each sticky RegExp object
  hist        \* history: which kinds of calls the tree has seen, see NoHist

vars == <<grammar, tokenizer, result, lexemes, parser, pc, frame, heap, tree, thrown,
          calls, returned, lastIndex, hist>>

NoTree == [root |-> Null, leaves |-> <<>>]
NoFrame == [rootNode |-> Null, i |-> 0]
Nothing == [op |-> "", arg |-> Undefined, value |-> <<>>]

\* appended: Node.appendChild was called on a node of the tree after the tree
\* was built.  Of the nodes given to AstTree.addNode, prebuilt: one had
\* children; again: one was in the tree already; outside: one was given a
\* parent that is not in the tree.  addNodes: the number of addNode calls.
\* parseFrom: the Parser's cursor when parse() was last called.
NoHist ==
  [appended |-> FALSE, prebuilt |-> FALSE, again |-> FALSE, outside |-> FALSE, addNodes |-> 0,
   parseFrom |-> 0]

(***************************************************************************)
(* Tokenizer: tokenizer.ts.                                                *)
(***************************************************************************)
\* constructor(tokens, input)
NewTokenizer(tokens, input) ==
  [tokens |-> tokens, input |-> input, position |-> 0, line |-> 1, column |-> 1]

\* matchToken(token): the matched string, null, or the SyntaxError of new RegExp.
\* li is the lastIndex of the sticky RegExp objects before the call; the
\* result carries it as the call leaves it.
TokenizerMatchToken(t, token, li) ==
  LET substring == Slice(t.input, t.position)
      invalid == token.pattern.kind = "literal" /\ ~SourceIsValid(token.pattern.text)
      Outcome(match, after) ==
        IF match.found /\ match.index = 0
        THEN [kind |-> "string", text |-> match.text, lastIndex |-> after]
        ELSE [kind |-> "null", text |-> <<>>, lastIndex |-> after]
      OfRegExp(match) == Outcome(match, SetLastIndex(li, token.pattern, match.lastIndex))
  IN IF invalid THEN [kind |-> "throw", text |-> <<>>, lastIndex |-> li]
     ELSE IF token.pattern.kind = "regex"
          THEN OfRegExp(RegExpBuiltinExec(token.pattern, substring,
                                          LastIndexOf(li, token.pattern)))
     ELSE Outcome(AnchoredExec(token.pattern.text, substring), li)

\* updatePosition(match): the position, line and column after the match.
RECURSIVE ScanChars(_, _)
ScanChars(lc, match) ==
  IF match = <<>> THEN lc
  ELSE IF Head(match) = "\n"
       THEN ScanChars([line |-> lc.line + 1, column |-> 1], Tail(match))
       ELSE ScanChars([line |-> lc.line, column |-> lc.column + 1], Tail(match))

updatePosition(t, match) ==
  LET lc == ScanChars([line |-> t.line, column |-> t.column], match)
  IN [t EXCEPT !.position = t.position + Len(match), !.line = lc.line, !.column = lc.column]

\* A slip: `if (match !== null)`, which takes the empty match too.
NotNull(m) == m.kind = "string"

\* `if (match)`: null and the empty string are falsy.
Truthy(m) == m.kind = "string" /\ m.text # <<>>

\* tokenize's for loop from the i-th definition on: the first definition that
\* is not skipped and matches, a throw of matchToken on the way, or neither.
RECURSIVE ForTokens(_, _, _)
ForTokens(t, i, li) ==
  IF i > Len(t.tokens) THEN [kind |-> "none", token |-> 0, text |-> <<>>, lastIndex |-> li]
  ELSE IF t.tokens[i].skip THEN ForTokens(t, i + 1, li)
  ELSE LET Of(match) ==
             IF match.kind = "throw"
             THEN [kind |-> "throw", token |-> i, text |-> <<>>,
                   lastIndex |-> match.lastIndex]
             ELSE IF Truthy(match)
             THEN [kind |-> "match", token |-> i, text |-> match.text,
                   lastIndex |-> match.lastIndex]
             ELSE ForTokens(t, i + 1, match.lastIndex)
       IN Of(TokenizerMatchToken(t, t.tokens[i], li))

\* The Token instance tokenize pushes for a definition.
Emitted(token) == Token3(token.pattern, token.name, FALSE)

\* One iteration of tokenize's while loop.
TokenizeStep ==
  /\ pc = "tokenize"
  /\ tokenizer.position < Len(tokenizer.input)
  /\ \E for \in {ForTokens(tokenizer, 1, lastIndex)} :
        /\ lastIndex' = for.lastIndex
        /\ \/ /\ for.kind = "match"
              /\ result' = Append(result, Emitted(tokenizer.tokens[for.token]))
              /\ lexemes' = Append(lexemes, for.text)
              /\ tokenizer' = updatePosition(tokenizer, for.text)
              /\ UNCHANGED <<pc, thrown>>
           \/ /\ for.kind = "none"
              /\ thrown' = TokenizerError(
                             <<"Unexpected character",
                               tokenizer.input[tokenizer.position + 1]>>,
                             tokenizer.line, tokenizer.column)
              /\ pc' = "threw"
              /\ UNCHANGED <<result, lexemes, tokenizer>>
           \/ /\ for.kind = "throw"
              /\ thrown' = SyntaxError
              /\ pc' = "threw"
              /\ UNCHANGED <<result, lexemes, tokenizer>>
  /\ UNCHANGED <<grammar, parser, frame, heap, tree, calls, returned, hist>>

\* tokenize returns; the Parser's constructor stores the stream and the cursor.
TokenizeReturn ==
  /\ pc = "tokenize"
  /\ tokenizer.position >= Len(tokenizer.input)
  /\ parser' = [tokens |-> result, position |-> 0]
  /\ pc' = "constructed"
  /\ UNCHANGED <<grammar, tokenizer, result, lexemes, frame, heap, tree, thrown, calls,
                 returned, lastIndex, hist>>

(***************************************************************************)
(* Node: ast-node.ts.  A Node reference is an index of heap.               *)
(***************************************************************************)
\* constructor(value, token, children = [], line = 0, position = 0)
Node(value, token, children, line, position) ==
  [value |-> value, token |-> token, children |-> children, line |-> line,
   position |-> position, parent |-> Null]

\* A slip: the child goes under the node's last child, when it has one.
appendChildNested(h, n, childValue, token, line, position) ==
  LET under == IF h[n].children = <<>> THEN n ELSE h[n].children[Len(h[n].children)]
  IN Append([h EXCEPT ![under].children = Append(@, Len(h) + 1)],
            [value |-> childValue, token |-> token, children |-> <<>>, line |-> line,
             position |-> position, parent |-> under])

\* appendChild(childValue, token, line, position) on node n: the heap after it.
appendChild(h, n, childValue, token, line, position) ==
  LET childNode == Len(h) + 1
  IN Append([h EXCEPT ![n].children = Append(@, childNode)],
            [Node(childValue, token, <<>>, line, position) EXCEPT !.parent = n])

getParent(h, n) == h[n].parent

hasChildren(h, n) == Len(h[n].children) > 0

\* traversePreOrder / traversePostOrder with the callback `nodes.push(node)`:
\* the nodes pushed, in order.
RECURSIVE traversePostOrder(_, _)
RECURSIVE forEachPostOrder(_, _)
traversePostOrder(h, n) == forEachPostOrder(h, h[n].children) \o <<n>>

forEachPostOrder(h, children) ==
  IF children = <<>> THEN <<>>
  ELSE traversePostOrder(h, Head(children)) \o forEachPostOrder(h, Tail(children))

\* A slip: the callback runs after the children.
traversePreOrderCallbackLast(h, n) == traversePostOrder(h, n)

RECURSIVE traversePreOrder(_, _)
RECURSIVE forEachPreOrder(_, _)
traversePreOrder(h, n) == <<n>> \o forEachPreOrder(h, h[n].children)

forEachPreOrder(h, children) ==
  IF children = <<>> THEN <<>>
  ELSE traversePreOrder(h, Head(children)) \o forEachPreOrder(h, Tail(children))

(***************************************************************************)
(* AstTree: ast-tree.ts.                                                   *)
(***************************************************************************)
getNodesPreOrder(h, t) == traversePreOrder(h, t.root)

getNodesPostOrder(h, t) == traversePostOrder(h, t.root)

findLeaves(h, root) ==
  LET Childless(n) == Len(h[n].children) = 0
  IN SelectSeq(traversePreOrder(h, root), Childless)

\* constructor(root)
AstTree(h, root) ==
  [root |-> root,
   leaves |-> IF Len(h[root].children) = 0 THEN <<root>> ELSE findLeaves(h, root)]

\* addNode(node, parent): the heap and the tree after it.
addNodeHeap(h, node, parent) == [h EXCEPT ![parent].children = Append(@, node)]

\* A slip: the parent is not taken out of leaves.
addNodeLeavesKeepsParent(h, t, node, parent) ==
  IF Len(h[node].children) = 0 THEN Append(t.leaves, node) ELSE t.leaves

addNodeLeaves(h, t, node, parent) ==
  LET h2 == addNodeHeap(h, node, parent)
      NotParent(leaf) == leaf # parent
      filtered == IF Len(h2[parent].children) = 1
                  THEN SelectSeq(t.leaves, NotParent)
                  ELSE t.leaves
  IN IF Len(h2[node].children) = 0 THEN Append(filtered, node) ELSE filtered

(***************************************************************************)
(* Parser: parser.ts.                                                      *)
(***************************************************************************)
\* grammar.rules.flatMap((rule) => rule.tokens)
RECURSIVE FlatMapTokens(_)
FlatMapTokens(rules) ==
  IF rules = <<>> THEN <<>> ELSE Head(rules).tokens \o FlatMapTokens(Tail(rules))

\* `x || ""` of an optional string.
OrEmpty(x) == IF x = Undefined THEN "" ELSE x

\* A rule's name as the text of a pattern or a value: names are atomic here.
NameText(name) == IF name = "" THEN <<>> ELSE <<name>>

\* A slip: the stream token is compared by name, not by value.
ParserMatchTokenByName(p, tokenRule, li) ==
  [isMatch |-> p.position < Len(p.tokens) /\ tokenRule.name = p.tokens[p.position + 1].name,
   lastIndex |-> li]

\* matchToken(tokenRule): whether the stream token at the cursor matches, and
\* the lastIndex of the sticky RegExp objects after the call, li before it.
ParserMatchToken(p, tokenRule, li) ==
  IF p.position >= Len(p.tokens) THEN [isMatch |-> FALSE, lastIndex |-> li]
  ELSE LET currentToken == p.tokens[p.position + 1]
       IN IF tokenRule.pattern.kind = "regex"
          THEN LET Of(test) == [isMatch |-> test.found, lastIndex |-> test.lastIndex]
               IN Of(RegExpTest(tokenRule.pattern, currentToken.value, li))
          ELSE [isMatch |-> tokenRule.pattern.text = currentToken.value, lastIndex |-> li]

\* `currentToken?.name || "end of input"`
FoundName(p) ==
  IF p.position < Len(p.tokens)
       /\ p.tokens[p.position + 1].name \notin {Undefined, ""}
  THEN p.tokens[p.position + 1].name
  ELSE "end of input"

\* A slip: parse() starts over from the first stream token.
CursorRewound(p) == [p EXCEPT !.position = 0]

\* The Parser as parse() and matchRule find it: this.position is not written
\* before the loop.
CursorAtParse(p) == p

\* parse() is called: matchRule(rules[0]) creates the rule's node.
ParseCall ==
  /\ pc = "constructed"
  /\ calls < MaxParseCalls
  /\ calls' = calls + 1
  /\ IF Len(grammar.rules) = 0
     THEN /\ thrown' = TypeError
          /\ tree' = NoTree
          /\ UNCHANGED <<pc, frame, heap>>
     ELSE LET rule == grammar.rules[1]
              name == OrEmpty(rule.name)
          IN /\ heap' = Append(heap, Node(Token(Literal(NameText(name)), name, FALSE, <<>>),
                                          name, <<>>, 0, 0))
             /\ frame' = [rootNode |-> Len(heap) + 1, i |-> 1]
             /\ pc' = "matchRule"
             /\ thrown' = NoError
             /\ tree' = NoTree
  /\ parser' = CursorAtParse(parser)
  /\ hist' = [hist EXCEPT !.parseFrom = parser.position]
  /\ UNCHANGED <<grammar, tokenizer, result, lexemes, returned, lastIndex>>

\* One iteration of matchRule's for loop.
MatchRuleStep ==
  /\ pc = "matchRule"
  /\ frame.i <= Len(grammar.rules[1].tokens)
  /\ \E tokenRule \in {grammar.rules[1].tokens[frame.i]} :
       \E match \in {ParserMatchToken(parser, tokenRule, lastIndex)} :
         /\ lastIndex' = match.lastIndex
         /\ IF match.isMatch
            THEN LET token == parser.tokens[parser.position + 1]
                 IN /\ parser' = [parser EXCEPT !.position = parser.position + 1]
                    /\ heap' = appendChild(heap, frame.rootNode, token, OrEmpty(token.name),
                                           0, parser.position + 1)
                    /\ frame' = [frame EXCEPT !.i = frame.i + 1]
                    /\ UNCHANGED <<pc, thrown>>
            ELSE /\ thrown' = ParserError(
                                <<"Expected token", Template(tokenRule.name), "but found",
                                  FoundName(parser)>>,
                                0, parser.position)
                 /\ pc' = "constructed"
                 /\ frame' = NoFrame
                 /\ UNCHANGED <<parser, heap>>
  /\ UNCHANGED <<grammar, tokenizer, result, lexemes, tree, calls, returned, hist>>

\* matchRule returns the node; parse wraps it in an AstTree.
ParseReturn ==
  /\ pc = "matchRule"
  /\ frame.i > Len(grammar.rules[1].tokens)
  /\ tree' = AstTree(heap, frame.rootNode)
  /\ pc' = "constructed"
  /\ frame' = NoFrame
  /\ UNCHANGED <<grammar, tokenizer, result, lexemes, parser, heap, thrown, calls, returned,
                 lastIndex, hist>>

(***************************************************************************)
(* The pipeline: new Parser(grammar, input), then parse() calls.           *)
(***************************************************************************)
RootRules ==
  {GrammarRule(tokens, Undefined, None, name) :
     tokens \in SeqsUpTo(TokenDefs, MaxRuleLen), name \in {"expr", Undefined}}
  \cup {GrammarRule(<<NUMY>>, Undefined, None, "sticky"),
        GrammarRule(<<EMPTY, NUMY>>, Undefined, None, "sticky")}

\* The rules after the root rule.
OtherRules ==
  {<<>>,
   <<GrammarRule(<<OP>>, "LEFT", Some(1), "op")>>,
   <<GrammarRule(<<WS, THREE>>, Undefined, None, Undefined),
     GrammarRule(<<NUM, NUM>>, "RIGHT", Some(2), "nums")>>}

Grammars == {<<>>} \cup {<<root>> \o others : root \in RootRules, others \in OtherRules}

Inputs == SeqsUpTo(Chars, MaxInputLen)

Init ==
  /\ grammar = [rules |-> <<>>]
  /\ tokenizer = NewTokenizer(<<>>, <<>>)
  /\ result = <<>>
  /\ lexemes = <<>>
  /\ parser = [tokens |-> <<>>, position |-> 0]
  /\ pc = "start"
  /\ frame = NoFrame
  /\ heap = <<>>
  /\ tree = NoTree
  /\ thrown = NoError
  /\ calls = 0
  /\ returned = Nothing
  /\ lastIndex = NewLastIndex
  /\ hist = NoHist

\* new Parser(grammar, input) is called: its constructor builds the Tokenizer
\* over all the rules' tokens and calls tokenize().
NewParser(rules, input) ==
  /\ pc = "start"
  /\ grammar' = [rules |-> rules]
  /\ tokenizer' = NewTokenizer(FlatMapTokens(rules), input)
  /\ pc' = "tokenize"
  /\ UNCHANGED <<result, lexemes, parser, frame, heap, tree, thrown, calls, returned, lastIndex,
                 hist>>

Next ==
  \/ pc = "start" /\ \E rules \in Grammars, input \in Inputs : NewParser(rules, input)
  \/ TokenizeStep
  \/ TokenizeReturn
  \/ ParseCall
  \/ MatchRuleStep
  \/ ParseReturn

Spec == Init /\ [][Next]_vars

(***************************************************************************)
(* The tree API driven by a caller: new Node, Node.appendChild,            *)
(* new AstTree, AstTree.addNode and the two traversals.                    *)
(***************************************************************************)
NodeRefs == 1..Len(heap)

\* The nodes reachable from the nodes of S through children.
RECURSIVE Closure(_, _)
Closure(h, S) ==
  LET T == S \cup UNION {{h[p].children[k] : k \in 1..Len(h[p].children)} : p \in S}
  IN IF T = S THEN S ELSE Closure(h, T)

Reach(h, n) == Closure(h, {n})

InTree(n) == tree.root # Null /\ n \in Reach(heap, tree.root)

SomeToken == Token(Literal(<<"3">>), "THREE", FALSE, <<"3">>)

\* The parser and tokenizer take no part.
Idle ==
  UNCHANGED <<grammar, tokenizer, result, lexemes, parser, pc, frame, thrown, calls, lastIndex>>

NewNode ==
  /\ Len(heap) < MaxNodes
  /\ heap' = Append(heap, Node(SomeToken, "THREE", <<>>, 0, 0))
  /\ returned' = Nothing
  /\ UNCHANGED <<tree, hist>>
  /\ Idle

AppendChild(n) ==
  /\ Len(heap) < MaxNodes
  /\ heap' = appendChild(heap, n, SomeToken, "THREE", 0, 0)
  /\ hist' = [hist EXCEPT !.appended = @ \/ InTree(n)]
  /\ returned' = Nothing
  /\ UNCHANGED tree
  /\ Idle

\* new AstTree(root), of a node that is nobody's child.
NewAstTree(root) ==
  /\ tree = NoTree
  /\ heap[root].parent = Null
  /\ tree' = AstTree(heap, root)
  /\ returned' = Nothing
  /\ UNCHANGED <<heap, hist>>
  /\ Idle

\* addNode(node, parent).  A call that would close a cycle is left out: no
\* traversal of the result returns.
AddNode(node, parent) ==
  /\ tree # NoTree
  /\ hist.addNodes < MaxAddNodeCalls
  /\ parent \notin Reach(heap, node)
  /\ heap' = addNodeHeap(heap, node, parent)
  /\ tree' = [tree EXCEPT !.leaves = addNodeLeaves(heap, tree, node, parent)]
  /\ hist' = [hist EXCEPT !.prebuilt = @ \/ Len(heap[node].children) > 0,
                          !.again = @ \/ InTree(node),
                          !.outside = @ \/ ~InTree(parent),
                          !.addNodes = @ + 1]
  /\ returned' = Nothing
  /\ Idle

GetNodesPreOrder ==
  /\ tree # NoTree
  /\ returned' = [op |-> "getNodesPreOrder", arg |-> Undefined,
                  value |-> getNodesPreOrder(heap, tree)]
  /\ UNCHANGED <<heap, tree, hist>>
  /\ Idle

GetNodesPostOrder ==
  /\ tree # NoTree
  /\ returned' = [op |-> "getNodesPostOrder", arg |-> Undefined,
                  value |-> getNodesPostOrder(heap, tree)]
  /\ UNCHANGED <<heap, tree, hist>>
  /\ Idle

TreeInit ==
  /\ grammar = [rules |-> <<>>]
  /\ tokenizer = NewTokenizer(<<>>, <<>>)
  /\ result = <<>>
  /\ lexemes = <<>>
  /\ parser = [tokens |-> <<>>, position |-> 0]
  /\ pc = "tree"
  /\ frame = NoFrame
  /\ heap = <<>>
  /\ tree = NoTree
  /\ thrown = NoError
  /\ calls = 0
  /\ returned = Nothing
  /\ lastIndex = NewLastIndex
  /\ hist = NoHist

TreeNext ==
  \/ NewNode
  \/ \E n \in NodeRefs : AppendChild(n)
  \/ \E root \in NodeRefs : NewAstTree(root)
  \/ \E node \in NodeRefs, parent \in NodeRefs : AddNode(node, parent)
  \/ GetNodesPreOrder
  \/ GetNodesPostOrder

TreeSpec == TreeInit /\ [][TreeNext]_vars

(***************************************************************************)
(* The Grammar API driven by a caller: new Grammar, addRule and the two    *)
(* queries.                                                                *)
(***************************************************************************)
\* Each GrammarRule created gets a name of its own, which tells the rule
\* objects apart.
RuleNames == <<"r1", "r2", "r3", "r4", "r5", "r6">>

\* `x || 0` of an optional number.
OrZero(x) == IF x = None THEN 0 ELSE x[1]

\* A slip: the operands the other way round, which sorts ascending.
ComparePrecedenceAscending(a, b) == OrZero(a.precedence) - OrZero(b.precedence)

\* The comparator of getRulesByPrecedence.
ComparePrecedence(a, b) == OrZero(b.precedence) - OrZero(a.precedence)

\* Array.prototype.sort, which is stable: x goes before the first element
\* that the comparator orders after it.
RECURSIVE Insert(_, _)
Insert(sorted, x) ==
  IF sorted = <<>> THEN <<x>>
  ELSE IF ComparePrecedence(x, Head(sorted)) < 0 THEN <<x>> \o sorted
  ELSE <<Head(sorted)>> \o Insert(Tail(sorted), x)

RECURSIVE SortByPrecedence(_)
SortByPrecedence(rules) ==
  IF rules = <<>> THEN <<>>
  ELSE Insert(SortByPrecedence(SubSeq(rules, 1, Len(rules) - 1)), rules[Len(rules)])

\* this.rules.slice().sort(...)
getRulesByPrecedence(g) == SortByPrecedence(g.rules)

\* A slip: the filter without `!associativity ||`.
getRulesByAssociativityStrict(g, associativity) ==
  LET Keep(rule) == rule.associativity = associativity
  IN SelectSeq(g.rules, Keep)

\* this.rules.filter((rule) => !associativity || rule.associativity === associativity)
getRulesByAssociativity(g, associativity) ==
  LET Keep(rule) == associativity = Undefined \/ rule.associativity = associativity
  IN SelectSeq(g.rules, Keep)

\* this.rules.push(rule)
addRule(g, rule) == [g EXCEPT !.rules = Append(@, rule)]

Precedences == {None, Some(-1), Some(0), Some(2)}

\* The tree takes no part.
NoTreeChange == UNCHANGED <<tokenizer, result, lexemes, parser, pc, frame, heap, tree,
                            thrown, calls, lastIndex, hist>>

\* addRule(new GrammarRule(tokens, associativity, precedence, name))
AddRule(associativity, precedence) ==
  /\ Len(grammar.rules) < MaxGrammarRules
  /\ grammar' = addRule(grammar, GrammarRule(<<NUM, OP>>, associativity, precedence,
                                             RuleNames[Len(grammar.rules) + 1]))
  /\ returned' = Nothing
  /\ NoTreeChange

\* addRule(rule) of a rule that is in the grammar already.
AddRuleAgain(i) ==
  /\ Len(grammar.rules) < MaxGrammarRules
  /\ grammar' = addRule(grammar, grammar.rules[i])
  /\ returned' = Nothing
  /\ NoTreeChange

GetRulesByAssociativity(associativity) ==
  /\ returned' = [op |-> "getRulesByAssociativity", arg |-> associativity,
                  value |-> getRulesByAssociativity(grammar, associativity)]
  /\ UNCHANGED grammar
  /\ NoTreeChange

GetRulesByPrecedence ==
  /\ returned' = [op |-> "getRulesByPrecedence", arg |-> Undefined,
                  value |-> getRulesByPrecedence(grammar)]
  /\ UNCHANGED grammar
  /\ NoTreeChange

GrammarInit ==
  /\ grammar = [rules |-> <<>>]
  /\ tokenizer = NewTokenizer(<<>>, <<>>)
  /\ result = <<>>
  /\ lexemes = <<>>
  /\ parser = [tokens |-> <<>>, position |-> 0]
  /\ pc = "grammar"
  /\ frame = NoFrame
  /\ heap = <<>>
  /\ tree = NoTree
  /\ thrown = NoError
  /\ calls = 0
  /\ returned = Nothing
  /\ lastIndex = NewLastIndex
  /\ hist = NoHist

GrammarNext ==
  \/ \E associativity \in {Undefined, "LEFT", "RIGHT"}, precedence \in Precedences :
        AddRule(associativity, precedence)
  \/ \E i \in 1..Len(grammar.rules) : AddRuleAgain(i)
  \/ \E associativity \in Associativity \cup {Undefined} :
        GetRulesByAssociativity(associativity)
  \/ GetRulesByPrecedence

GrammarSpec == GrammarInit /\ [][GrammarNext]_vars

(***************************************************************************)
(* Properties.                                                             *)
(***************************************************************************)
\* The values of a sequence of Token instances.
Values(tokens) == [i \in 1..Len(tokens) |-> tokens[i].value]

\* The first parse() call has returned or thrown.
FirstParseDone == pc = "constructed" /\ calls = 1

\* Whether a definition's pattern matches a string as the Parser compares
\* them: a regex by test, a literal by equality.
PatternMatches(definition, string) ==
  \/ definition.pattern.kind = "regex" /\ RegExpTest(definition.pattern, string, NewLastIndex).found
  \/ definition.pattern.kind = "literal" /\ definition.pattern.text = string

\* C1: when no definition is flagged skip and tokenize() succeeds, every
\* emitted Token instance's value is the substring it matched, and the
\* values of the returned tokens, concatenated in order, are the input.
C1_ValuesReconstructInput ==
  (/\ pc = "constructed"
   /\ \A i \in 1..Len(tokenizer.tokens) : ~tokenizer.tokens[i].skip)
  => /\ Values(parser.tokens) = lexemes
     /\ Concat(Values(parser.tokens)) = tokenizer.input

\* C2: when the input tokenizes into n substrings and the root rule has n
\* definitions, the i-th matching the i-th substring, parse() succeeds and
\* returns a tree of 1 + n nodes: the root and, in matched order, one child
\* per rule token whose value carries the matched substring.
C2_ParseBuildsChildPerToken ==
  (/\ FirstParseDone
   /\ Len(grammar.rules) > 0
   /\ Len(grammar.rules[1].tokens) = Len(lexemes)
   /\ \A i \in 1..Len(lexemes) : PatternMatches(grammar.rules[1].tokens[i], lexemes[i]))
  => /\ thrown = NoError
     /\ tree.root # Null
     /\ Len(getNodesPreOrder(heap, tree)) = 1 + Len(lexemes)
     /\ Len(heap[tree.root].children) = Len(lexemes)
     /\ \A i \in 1..Len(lexemes) :
          heap[heap[tree.root].children[i]].value.value = lexemes[i]

\* C3: when the input's tokens match a proper prefix of the root rule's
\* definitions, parse() fails with a ParserError that names the next expected
\* definition and reports "end of input" as what was found.
C3_MissingTokenReportsEndOfInput ==
  (/\ FirstParseDone
   /\ Len(grammar.rules) > 0
   /\ Len(lexemes) < Len(grammar.rules[1].tokens)
   /\ \A i \in 1..Len(lexemes) : PatternMatches(grammar.rules[1].tokens[i], lexemes[i]))
  => /\ thrown.name = "ParserError"
     /\ thrown.message = <<"Expected token",
                           Template(grammar.rules[1].tokens[Len(lexemes) + 1].name),
                           "but found", "end of input">>
     /\ tree = NoTree

\* The reachable nodes without children.
LeafSet == {n \in Reach(heap, tree.root) : Len(heap[n].children) = 0}

\* C4: at construction and after any sequence of addNode calls, each to a
\* parent in the tree, leaves is exactly the set of nodes reachable from root
\* that have no children, each listed once.
C4_LeavesAreReachableChildless ==
  (tree # NoTree /\ ~hist.appended /\ ~hist.outside)
  => /\ {tree.leaves[i] : i \in 1..Len(tree.leaves)} = LeafSet
     /\ Len(tree.leaves) = Cardinality(LeafSet)

\* A manual count: 1 plus the newlines before the offset, and 1 plus the
\* characters between the last newline before the offset and the offset.
ManualLine(input, offset) == 1 + Cardinality({i \in 1..offset : input[i] = "\n"})

ManualColumn(input, offset) ==
  LET newlines == {i \in 1..offset : input[i] = "\n"}
      last == IF newlines = {} THEN 0
              ELSE CHOOSE i \in newlines : \A j \in newlines : j <= i
  IN 1 + offset - last

\* Whether s starts with the text.
StartsWith(s, text) == Len(text) <= Len(s) /\ SubSeq(s, 1, Len(text)) = text

\* No definition that is not flagged skip matches at the tokenizer's offset,
\* neither as the tokenizer matches it nor, for a string pattern, read as the
\* literal text.
NoDefinitionMatches(t) ==
  \A i \in 1..Len(t.tokens) :
    ~t.tokens[i].skip =>
      /\ ~Truthy(TokenizerMatchToken(t, t.tokens[i], NewLastIndex))
      /\ t.tokens[i].pattern.kind = "literal" =>
            ~StartsWith(Slice(t.input, t.position), t.tokens[i].pattern.text)

\* C5: when tokenize() stops at an offset where no non-skip definition
\* matches, it has thrown a TokenizerError that reports the character at the
\* offset, with the line and column of a manual count, and no token sequence
\* was returned.
C5_UnexpectedCharacterIsLocated ==
  (pc = "threw" /\ NoDefinitionMatches(tokenizer))
  => /\ thrown = TokenizerError(
                   <<"Unexpected character", tokenizer.input[tokenizer.position + 1]>>,
                   ManualLine(tokenizer.input, tokenizer.position),
                   ManualColumn(tokenizer.input, tokenizer.position))
     /\ parser.tokens = <<>>

\* Each node reachable from root is the child of one node, once, and root of
\* none.
IsTree(h, root) ==
  LET nodes == Reach(h, root)
  IN \A n \in nodes :
       Cardinality({pk \in nodes \X (1..Len(h)) :
                      pk[2] <= Len(h[pk[1]].children) /\ h[pk[1]].children[pk[2]] = n})
         = IF n = root THEN 0 ELSE 1

\* The proper descendants of n.
Subtree(h, n) == Reach(h, n) \ {n}

\* out lists each reachable node once.
ListsEachNodeOnce(h, root, out) ==
  LET nodes == Reach(h, root)
  IN /\ Len(out) = Cardinality(nodes)
     /\ {out[i] : i \in 1..Len(out)} = nodes

\* Siblings in the tree come in the order of their parent's children array.
SiblingsInArrayOrder(h, root, out) ==
  LET nodes == Reach(h, root)
  IN \A i \in 1..Len(out), j \in 1..Len(out) :
       (\E p \in nodes, k \in 1..Len(h), l \in 1..Len(h) :
           /\ k < l /\ l <= Len(h[p].children)
           /\ h[p].children[k] = out[i] /\ h[p].children[l] = out[j])
       => i < j

\* The spec's example: root R with children [A, B], A with the child A1.
IsExample(h, R, A, A1, B) ==
  /\ h[R].children = <<A, B>>
  /\ h[A].children = <<A1>>
  /\ h[A1].children = <<>>
  /\ h[B].children = <<>>

C6_Order ==
  (/\ returned.op \in {"getNodesPreOrder", "getNodesPostOrder"}
   /\ tree # NoTree
   /\ IsTree(heap, tree.root))
  => /\ returned.op = "getNodesPreOrder" =>
          /\ ListsEachNodeOnce(heap, tree.root, returned.value)
          /\ SiblingsInArrayOrder(heap, tree.root, returned.value)
          /\ \A i \in 1..Len(returned.value), j \in 1..Len(returned.value) :
               returned.value[j] \in Subtree(heap, returned.value[i]) => i < j
          /\ \A A \in NodeRefs, A1 \in NodeRefs, B \in NodeRefs :
               IsExample(heap, tree.root, A, A1, B)
               => returned.value = <<tree.root, A, A1, B>>
     /\ returned.op = "getNodesPostOrder" =>
          /\ ListsEachNodeOnce(heap, tree.root, returned.value)
          /\ SiblingsInArrayOrder(heap, tree.root, returned.value)
          /\ \A i \in 1..Len(returned.value), j \in 1..Len(returned.value) :
               returned.value[j] \in Subtree(heap, returned.value[i]) => j < i
          /\ \A A \in NodeRefs, A1 \in NodeRefs, B \in NodeRefs :
               IsExample(heap, tree.root, A, A1, B)
               => returned.value = <<A1, A, B, tree.root>>

C6_Frame ==
  returned'.op \in {"getNodesPreOrder", "getNodesPostOrder"}
  => heap' = heap /\ tree' = tree

\* C6: on a tree, getNodesPreOrder() lists each reachable node once, before
\* all nodes of its subtree, and getNodesPostOrder() lists it once, after
\* them, siblings in array order; on the example R[A[A1], B] they give
\* [R, A, A1, B] and [A1, A, B, R]; a traversal leaves the tree as it is.
C6_TraversalOrders == []C6_Order /\ [][C6_Frame]_vars

\* C6's case: the example tree, traversed in pre-order.
C6_Witness ==
  /\ tree # NoTree
  /\ \E A \in NodeRefs, A1 \in NodeRefs, B \in NodeRefs :
       /\ IsExample(heap, tree.root, A, A1, B)
       /\ returned.op = "getNodesPreOrder"
       /\ returned.value = <<tree.root, A, A1, B>>

\* An iteration of tokenize's loop that does not throw moves the offset on.
C7_OffsetAdvances ==
  (pc = "tokenize" /\ pc' = "tokenize") => tokenizer'.position > tokenizer.position

\* An iteration of matchRule's loop that does not throw is one more attempt.
C7_AttemptsCount ==
  (pc = "matchRule" /\ pc' = "matchRule") => frame'.i = frame.i + 1

\* The tokens emitted are at most the characters consumed; the matchToken
\* attempts made are at most the rule's tokens.
C7_Bounded ==
  /\ Len(result) <= tokenizer.position
  /\ tokenizer.position <= Len(tokenizer.input)
  /\ pc = "matchRule" => frame.i - 1 <= Len(grammar.rules[1].tokens)

\* A running loop has an outcome: an iteration of tokenize matches a
\* non-empty stretch of the rest of the input or throws, and matchRule can
\* make its next attempt or return.
C7_Progress ==
  /\ (pc = "tokenize" /\ tokenizer.position < Len(tokenizer.input))
     => LET for == ForTokens(tokenizer, 1, lastIndex)
        IN for.kind = "match"
           => /\ Len(for.text) >= 1
              /\ tokenizer.position + Len(for.text) <= Len(tokenizer.input)
  /\ pc = "matchRule" => ENABLED (MatchRuleStep \/ ParseReturn)

\* C7: tokenize() returns or throws, each iteration moving the offset on by
\* at least one character or throwing, so that at most input-length tokens
\* are emitted; parse() returns or throws after at most rule.tokens.length
\* matchToken attempts.  Termination is stated by its variant: a running call
\* can always step, and each step that does not end it uses up the input or
\* the rule.
C7_Terminates ==
  /\ [][C7_OffsetAdvances /\ C7_AttemptsCount]_vars
  /\ []C7_Bounded
  /\ []C7_Progress

\* C7's case: an input of three characters was tokenized into three tokens,
\* and a parse() of a rule of two tokens has returned.
C7_Witness ==
  /\ FirstParseDone
  /\ Len(tokenizer.input) = 3
  /\ Len(parser.tokens) = 3
  /\ Len(grammar.rules[1].tokens) = 2
  /\ tree # NoTree

\* C8: after any sequence of appendChild and addNode calls, every node c in
\* the children of a node p has c.getParent() = p, and the parent of the
\* tree's root is null.
C8_ParentIsMaintained ==
  /\ \A p \in NodeRefs : \A k \in 1..Len(heap[p].children) :
       getParent(heap, heap[p].children[k]) = p
  /\ tree # NoTree => getParent(heap, tree.root) = Null

\* The indices of a permutation that sorts rules into out, stably.
StableSortingPermutations(rules, out) ==
  {f \in Permutations(1..Len(rules)) :
     /\ \A i \in 1..Len(out) : out[i] = rules[f[i]]
     /\ \A i \in 1..Len(out), j \in 1..Len(out) :
          (i < j /\ OrZero(out[i].precedence) = OrZero(out[j].precedence)) => f[i] < f[j]}

C9_Sorted ==
  returned.op = "getRulesByPrecedence"
  => /\ Len(returned.value) = Len(grammar.rules)
     /\ \A i \in 1..Len(returned.value), j \in 1..Len(returned.value) :
          i < j => OrZero(returned.value[i].precedence) >= OrZero(returned.value[j].precedence)
     /\ StableSortingPermutations(grammar.rules, returned.value) # {}

C9_Frame == returned'.op = "getRulesByPrecedence" => grammar' = grammar

\* C9: getRulesByPrecedence() returns a permutation of rules in descending
\* order of precedence, a missing precedence counting as 0 and rules of equal
\* precedence keeping their order; rules itself, and so rules[0], is as before.
C9_SortedByPrecedence == []C9_Sorted /\ [][C9_Frame]_vars

\* C9's case: three rules out of order, a missing precedence tied with 0 and
\* above a negative one.
C9_Witness ==
  /\ returned.op = "getRulesByPrecedence"
  /\ Len(grammar.rules) = 3
  /\ grammar.rules[1].precedence = Some(-1)
  /\ grammar.rules[2].precedence = None
  /\ grammar.rules[3].precedence = Some(0)
  /\ returned.value = <<grammar.rules[2], grammar.rules[3], grammar.rules[1]>>

\* The k-th least member of a set of indices.
KthIndex(idx, k) == CHOOSE i \in idx : Cardinality({j \in idx : j < i}) = k - 1

C10_Filtered ==
  returned.op = "getRulesByAssociativity"
  => LET idx == {i \in 1..Len(grammar.rules) :
                   returned.arg = Undefined
                   \/ grammar.rules[i].associativity = returned.arg}
     IN /\ Len(returned.value) = Cardinality(idx)
        /\ \A k \in 1..Len(returned.value) :
             returned.value[k] = grammar.rules[KthIndex(idx, k)]
        /\ returned.arg = Undefined => returned.value = grammar.rules

C10_AppendsOnly ==
  /\ returned'.op = "getRulesByAssociativity" => grammar' = grammar
  /\ grammar' # grammar =>
       /\ Len(grammar'.rules) = Len(grammar.rules) + 1
       /\ SubSeq(grammar'.rules, 1, Len(grammar.rules)) = grammar.rules

OffsetOf(k) == Len(Concat(SubSeq(lexemes, 1, k - 1)))

\* The definitions that are candidates at an offset: those not flagged skip
\* (see C12) whose anchored pattern matches a non-empty prefix of the rest of
\* the input.
C11_Candidates(offset) ==
  LET t == [tokenizer EXCEPT !.position = offset]
  IN {i \in 1..Len(t.tokens) :
        /\ ~t.tokens[i].skip
        /\ LET m == TokenizerMatchToken(t, t.tokens[i], NewLastIndex)
           IN m.kind = "string" /\ Len(m.text) >= 1}

\* The first candidate at an offset.
C11_First(offset) ==
  CHOOSE i \in C11_Candidates(offset) : \A j \in C11_Candidates(offset) : i <= j

\* C11: the tokenizer's definitions are all rules' token sequences
\* concatenated in rule order; each emitted token is the token of the first
\* definition in that order whose pattern matches a non-empty prefix of the
\* input at its offset, with that definition's match and not a later, longer
\* one; and at an offset where some definition matches, tokenize() does not
\* stop.
C11_FirstMatchWins ==
  /\ pc # "start"
     => tokenizer.tokens = Concat([r \in 1..Len(grammar.rules) |-> grammar.rules[r].tokens])
  /\ \A k \in 1..Len(result) :
       /\ C11_Candidates(OffsetOf(k)) # {}
       /\ LET definition == tokenizer.tokens[C11_First(OffsetOf(k))]
          IN /\ result[k].pattern = definition.pattern
             /\ result[k].name = definition.name
             /\ lexemes[k] = TokenizerMatchToken([tokenizer EXCEPT !.position = OffsetOf(k)],
                                                 definition, NewLastIndex).text
  /\ tokenizer.position = OffsetOf(Len(result) + 1)
  /\ pc = "threw" => C11_Candidates(tokenizer.position) = {}

\* Only definitions flagged skip match at the tokenizer's offset.
OnlySkipFlaggedMatch(t) ==
  /\ t.position < Len(t.input)
  /\ NoDefinitionMatches(t)
  /\ \E i \in 1..Len(t.tokens) :
       t.tokens[i].skip /\ Truthy(TokenizerMatchToken(t, t.tokens[i], NewLastIndex))

\* C12: every emitted Token instance has skip = false and comes from a
\* definition that is not flagged skip and matches where it was emitted, and
\* when tokenize() stops at an offset where only definitions flagged skip
\* match, it has thrown a TokenizerError and consumed nothing there.
C12_SkipFlaggedNeverMatch ==
  /\ \A k \in 1..Len(result) :
       /\ result[k].skip = FALSE
       /\ \E i \in 1..Len(tokenizer.tokens) :
            /\ ~tokenizer.tokens[i].skip
            /\ tokenizer.tokens[i].pattern = result[k].pattern
            /\ tokenizer.tokens[i].name = result[k].name
            /\ TokenizerMatchToken([tokenizer EXCEPT !.position = OffsetOf(k)],
                                   tokenizer.tokens[i], NewLastIndex).text = lexemes[k]
  /\ (pc = "threw" /\ OnlySkipFlaggedMatch(tokenizer))
     => /\ thrown.name = "TokenizerError"
        /\ thrown.message = <<"Unexpected character", tokenizer.input[tokenizer.position + 1]>>
        /\ tokenizer.position = OffsetOf(Len(result) + 1)

\* The comparison of a definition with a value: the test of a regex pattern,
\* the RegExp object being as it is, and equality with a string pattern.
C13_Compares(definition, value) ==
  IF definition.pattern.kind = "regex"
  THEN RegExpTest(definition.pattern, value, lastIndex).found
  ELSE definition.pattern.text = value

\* The step of matchRule that calls matchToken(definition).
C13_Call ==
  (pc = "matchRule" /\ frame.i <= Len(grammar.rules[1].tokens))
  => LET definition == grammar.rules[1].tokens[frame.i]
         atEnd == parser.position >= Len(parser.tokens)
     IN IF ~atEnd /\ C13_Compares(definition, parser.tokens[parser.position + 1].value)
        THEN /\ parser'.position = parser.position + 1
             /\ pc' = "matchRule"
             /\ heap'[Len(heap')].value = parser.tokens[parser.position + 1]
        ELSE /\ parser'.position = parser.position
             /\ thrown'.name = "ParserError"
             /\ heap' = heap

C13_StreamIsKept == pc \notin {"start", "tokenize"} => parser'.tokens = parser.tokens

\* C13: matchToken(definition) returns null with the cursor unchanged when
\* the cursor is at or past the end of the stream; otherwise it compares the
\* definition with the value of the stream token at the cursor, by regex test
\* or by string equality, and on a match advances the cursor by one and
\* returns that token, on a mismatch returns null with the cursor unchanged;
\* the stream is never modified.
C13_MatchTokenMovesCursorOnMatch == [][C13_Call /\ C13_StreamIsKept]_vars

\* C13's case: the first definition, a string, equalled the value of the
\* first stream token and the cursor moved to 1; the stream has more tokens.
C13_Witness ==
  /\ pc = "matchRule"
  /\ frame.i = 2
  /\ parser.position = 1
  /\ Len(parser.tokens) = 2
  /\ ~isRegex(grammar.rules[1].tokens[1])
  /\ Len(heap[frame.rootNode].children) = 1

\* C14: when the first parse() fails in matchRule, the ParserError's message
\* names the expected definition's name and, as what was found, the name of
\* the stream token at the cursor when the cursor is inside the stream, and
\* "end of input" only when the cursor is at or past the end of the stream.
C14_FailureNamesWhatWasFound ==
  (FirstParseDone /\ thrown.name = "ParserError")
  => LET expected == grammar.rules[1].tokens[parser.position + 1]
     IN /\ Len(thrown.message) = 4
        /\ thrown.message[1] = "Expected token"
        /\ thrown.message[2] = Template(expected.name)
        /\ thrown.message[3] = "but found"
        /\ thrown.message[4] = IF parser.position < Len(parser.tokens)
                               THEN Template(parser.tokens[parser.position + 1].name)
                               ELSE "end of input"

\* The step in which a matchToken of matchRule fails.
C15_Fails == pc = "matchRule" /\ thrown'.name = "ParserError"

\* The failure ends the call: matchRule is left with no tree, the cursor where
\* it was, and a ParserError of line 0 and the cursor as column.
C15_Aborts ==
  C15_Fails
  => /\ pc' = "constructed"
     /\ frame' = NoFrame
     /\ tree' = NoTree
     /\ heap' = heap
     /\ parser' = parser
     /\ thrown'.line = Some(0)
     /\ thrown'.column = Some(parser.position)

\* A failed call has no tree until parse() is called again.
C15_NoTree == (pc = "constructed" /\ thrown.name = "ParserError") => tree = NoTree

\* The rule tokens matched before the failure, which are the children made.
C15_Matched == Len(heap[frame.rootNode].children)

\* C15 as stated: the first unmatched expected token aborts the parse, with
\* no later definition attempted and no AstTree returned, and the ParserError
\* has line 0 and as column the cursor at the failure, which equals the
\* number of rule tokens matched before it.
C15_ColumnIsMatchedCount ==
  [][C15_Aborts /\ (C15_Fails => parser.position = C15_Matched)]_vars

\* C15 amended: the cursor at the failure equals the cursor at the start of
\* that parse() call plus the number of rule tokens matched before it.
C15_ColumnIsCursor ==
  /\ [][/\ C15_Aborts
        /\ C15_Fails => /\ C15_Matched = frame.i - 1
                        /\ parser.position = hist.parseFrom + C15_Matched
                        /\ calls = 1 => parser.position = C15_Matched]_vars
  /\ []C15_NoTree

\* C15's case: a second parse() that started at cursor 1 matched one more
\* token and then failed, with column 2.
C15_Witness ==
  /\ pc = "constructed"
  /\ calls = 2
  /\ hist.parseFrom = 1
  /\ thrown.name = "ParserError"
  /\ thrown.line = Some(0)
  /\ thrown.column = Some(2)
  /\ tree = NoTree

\* Every addNode call so far added a node without children that was not in
\* the tree, to a parent in the tree, and the tree was changed by addNode alone.
C16_Restricted ==
  ~hist.prebuilt /\ ~hist.again /\ ~hist.outside /\ ~hist.appended

C16_Leaves ==
  (tree # NoTree /\ C16_Restricted)
  => /\ {tree.leaves[i] : i \in 1..Len(tree.leaves)} = LeafSet
     /\ Len(tree.leaves) = Cardinality(LeafSet)

\* An addNode call: the parent is the node whose children grew, the node
\* its new last child.
C16_AddNode ==
  (hist'.addNodes = hist.addNodes + 1 /\ C16_Restricted')
  => LET parent == CHOOSE n \in NodeRefs : heap'[n].children # heap[n].children
         node == heap'[parent].children[Len(heap'[parent].children)]
         before == {tree.leaves[i] : i \in 1..Len(tree.leaves)}
         after == {tree'.leaves[i] : i \in 1..Len(tree'.leaves)}
     IN after = (before \ (IF Len(heap[parent].children) = 0 THEN {parent} ELSE {}))
                  \cup {node}

C17_TreeHasTwoLevels ==
  (pc = "constructed" /\ tree # NoTree)
  => LET root == tree.root
         rule == grammar.rules[1]
         name == IF rule.name = Undefined THEN "" ELSE rule.name
         children == heap[root].children
     IN /\ heap[root].token = name
        /\ heap[root].value.name = name
        /\ heap[root].value.pattern = Literal(NameText(name))
        /\ heap[root].value.skip = FALSE
        /\ getParent(heap, root) = Null
        /\ Len(children) = Len(rule.tokens)
        /\ Reach(heap, root) = {root} \cup {children[k] : k \in 1..Len(children)}
        /\ Cardinality(Reach(heap, root)) = 1 + Len(children)
        /\ \A k \in 1..Len(children) :
             LET child == heap[children[k]]
             IN /\ child.children = <<>>
                /\ child.parent = root
                /\ child.value = parser.tokens[hist.parseFrom + k]
                /\ child.token = IF child.value.name = Undefined THEN ""
                                 ELSE child.value.name

\* C17's case: a parse() of a named rule of two tokens returned its tree.
C17_Witness ==
  /\ pc = "constructed"
  /\ tree # NoTree
  /\ heap[tree.root].token = "expr"
  /\ Len(heap[tree.root].children) = 2
  /\ Len(grammar.rules[1].tokens) = 2

\* C18: from the Parser's construction on, through tokenizing and any number
\* of parse() calls, the grammar's rules, their token sequences and the
\* definitions' pattern, name, skip and value stay as the caller made them,
\* a pattern's RegExp object with its lastIndex included.
C18_ConfigurationIsNeverMutated ==
  [][pc # "start" => (grammar' = grammar /\ lastIndex' = lastIndex)]_vars

C19_InRange == 0 <= parser.position /\ parser.position <= Len(parser.tokens)

C19_Monotone ==
  /\ parser'.position >= parser.position
  /\ calls' = calls + 1 => parser'.position = parser.position
  /\ (pc = "matchRule" /\ frame.i = 1 /\ pc' = "matchRule" /\ frame'.i = 2)
     => heap'[Len(heap')].value = parser.tokens[hist.parseFrom + 1]

\* A second parse() that found the cursor at the end of the stream, with a
\* root rule that has tokens, has failed.
C19_SecondParseFails ==
  (/\ pc = "constructed" /\ calls = 2
   /\ hist.parseFrom = Len(parser.tokens)
   /\ Len(grammar.rules) > 0
   /\ Len(grammar.rules[1].tokens) > 0)
  => thrown.name = "ParserError" /\ tree = NoTree

\* C19: the cursor stays between 0 and the length of the stream and never
\* decreases; parse() does not reset it, so a second parse() starts matching
\* at the stream token where the previous call stopped, and after a parse()
\* that consumed the whole stream it fails with a ParserError.
C19_CursorIsNeverReset ==
  /\ []C19_InRange
  /\ [][C19_Monotone]_vars
  /\ []C19_SecondParseFails

\* C19's case: a first parse() matched the rule's tokens against the whole
\* stream, and the second parse(), starting at the end, threw a ParserError.
C19_Witness ==
  /\ pc = "constructed"
  /\ calls = 2
  /\ Len(parser.tokens) >= 1
  /\ Len(grammar.rules[1].tokens) = Len(parser.tokens)
  /\ hist.parseFrom = Len(parser.tokens)
  /\ parser.position = Len(parser.tokens)
  /\ thrown.name = "ParserError"

\* The first n stream tokens match the root rule's n definitions, each by
\* the comparison matchToken makes.
C20_PrefixMatches ==
  /\ Len(grammar.rules) > 0
  /\ Len(grammar.rules[1].tokens) <= Len(parser.tokens)
  /\ \A i \in 1..Len(grammar.rules[1].tokens) :
       PatternMatches(grammar.rules[1].tokens[i], parser.tokens[i].value)

\* C20: whenever the first n stream tokens match the root rule's n
\* definitions, the first parse() succeeds with the cursor at n, whatever
\* tokens follow: they are not reported as an error, and the tree holds the
\* root and the n matched tokens only.
C20_TrailingTokensAreIgnored ==
  (FirstParseDone /\ C20_PrefixMatches)
  => LET n == Len(grammar.rules[1].tokens)
     IN /\ thrown = NoError
        /\ tree # NoTree
        /\ parser.position = n
        /\ Len(heap[tree.root].children) = n
        /\ \A i \in 1..n : heap[heap[tree.root].children[i]].value = parser.tokens[i]
        /\ Cardinality(Reach(heap, tree.root)) = 1 + n
====
